---- MODULE Spec2Model ----
(***************************************************************************)
(* Nexus AI backend: the authentication gates (verifyAuth, optionalAuth),  *)
(* the admin gate (requireAdmin), the ownership-scoped project routes and  *)
(* the chat prompt assembly, as a state machine over requests in flight.   *)
(*                                                                         *)
(* A request occupies a slot and moves through its middleware chain:       *)
(*   idle -> gate -> [admin] -> handler -> [mutate] -> done -> idle        *)
(* Every step between two awaits that touch the project table is one       *)
(* action, so two requests interleave exactly where the code awaits.       *)
(***************************************************************************)
EXTENDS Integers, Sequences, FiniteSets, TLC

VARIABLES
    projects,   \* the projects table: id -> row (a function column -> value)
    nextId,     \* the id the store generates next (none is handed out twice)
    clock,      \* source of created_at
    adminActions, \* the admin_actions table: the audit records, oldest first
    req         \* the requests in flight, one record per slot

vars == <<projects, nextId, clock, adminActions, req>>

----------------------------------------------------------------------------
(* Bounds *)

MaxProjects == 2    \* rows the store ever generates an id for
MaxTurns == 8       \* turns of a conversation history
MaxAudit == 2       \* audit records the admin_actions table grows to

----------------------------------------------------------------------------
(* Input domains *)

\* The request slots: one request is in flight at a time.
Slots == {"r1"}

Users == {"alice", "bob"}

\* The profiles table: one row per identity.
Profiles ==
    [u \in Users |-> [id |-> u, is_admin |-> (u = "alice")]]

\* Authorization headers, as the words a single space separates
\* (<<>> is the absent header).
Headers ==
    { <<>>, <<"Basic", "tok_alice">>, <<"Bearer">>,
      <<"Bearer", "tok_alice">>, <<"Bearer", "tok_bob">>, <<"Bearer", "tok_bad">> }

\* The headers of the callers of the project routes.
ProjectHeaders ==
    { <<>>, <<"Bearer", "tok_alice">>, <<"Bearer", "tok_bob">> }

\* The identity the provider holds for a token (<<>>: none).
TokenUser(token) ==
    CASE token = "tok_alice" -> <<"alice">>
      [] token = "tok_bob"   -> <<"bob">>
      [] OTHER               -> <<>>

ProjectIds == 1..MaxProjects

\* Columns a client may send; a body is a function from the keys it holds.
PatchFields ==
    {"name", "description", "logo_url", "progress", "team_size",
     "due_date", "status", "tags", "priority"}

EmptyBody == [k \in {} |-> 0]

CreateBodies ==
    { EmptyBody,
      [name |-> ""],
      [name |-> "Launch"],
      [name |-> "Apollo", description |-> "d1", team_size |-> 3,
       tags |-> <<"x">>, priority |-> "high"] }

PatchBodies ==
    { EmptyBody,
      [progress |-> 50],
      [name |-> "Renamed", status |-> "done", user_id |-> "bob", id |-> 9],
      [name |-> "Renamed", description |-> "d2", logo_url |-> "l2", progress |-> 50,
       team_size |-> 5, due_date |-> "2026", status |-> "done",
       tags |-> <<"y">>, priority |-> "low"] }

----------------------------------------------------------------------------
(* Requests and responses *)

NoQuery == [op |-> "none", filters |-> {}]

NoResponse ==
    [status |-> 0, success |-> FALSE, error |-> "", kind |-> "none", data |-> <<>>, text |-> ""]

\* res.status(code).json({success: false, error: msg})
ErrorResponse(code, msg) ==
    [status |-> code, success |-> FALSE, error |-> msg, kind |-> "error", data |-> <<>>, text |-> ""]

\* res.json({success: true, <kind>: rows}); the status defaults to 200.
OkResponse(kind, data) ==
    [status |-> 200, success |-> TRUE, error |-> "", kind |-> kind, data |-> data, text |-> ""]

\* res.json({success: true, <kind>: text})
TextResponse(kind, text) ==
    [status |-> 200, success |-> TRUE, error |-> "", kind |-> kind, data |-> <<>>, text |-> text]

IdleRequest ==
    [ pc       |-> "idle",
      route    |-> "none",
      gate     |-> "none",    \* the auth gate mounted on the route
      admin    |-> FALSE,     \* requireAdmin is mounted after the gate
      header   |-> <<>>,
      id       |-> 0,
      body     |-> EmptyBody,
      user     |-> <<>>,      \* req.user    (<<>>: null or undefined)
      profile  |-> <<>>,      \* req.profile
      isAdmin  |-> FALSE,     \* req.isAdmin
      res      |-> NoResponse,
      sent     |-> 0,         \* responses sent
      nextCalls |-> 0,        \* calls of next() by the auth gate
      adminNext |-> 0,        \* calls of next() by requireAdmin
      idp      |-> "none",    \* what supabase.auth.getUser gave the gate
      lookup   |-> "none",    \* what the profiles lookup gave the gate
      out1     |-> "none",    \* what the handler's first store call gave
      out2     |-> "none",    \* what the handler's second store call gave
      q1       |-> NoQuery,   \* the handler's first query on the projects table
      q2       |-> NoQuery,   \* the handler's second query
      prompt   |-> "",        \* the prompt handed to the model
      llmCalls |-> 0,         \* calls of generateContent
      auditAttempts |-> 0,    \* inserts into admin_actions the handler issued
      handled  |-> FALSE ]    \* the route handler has started

ProjectRoutes == {"list", "get", "create", "patch", "delete"}

\* res.status(..).json(..): the response is sent and the chain ends.
Send(rq, response) ==
    [rq EXCEPT !.res = response, !.sent = @ + 1, !.pc = "done"]

----------------------------------------------------------------------------
(* Auth gates: src/server.js 39-126 *)

\* authHeader && authHeader.startsWith('Bearer ')
BearerScheme(h) == Len(h) >= 2 /\ h[1] = "Bearer"

\* authHeader.split(' ')[1]
TokenOf(h) == h[2]

\* What supabase.auth.getUser(token) can give: a user (only for a token the
\* provider knows), an error, neither, or an exception.
GetUserOutcomes(token) ==
    (IF TokenUser(token) # <<>> THEN {"user"} ELSE {}) \cup {"error", "nouser", "throw"}

\* What from('profiles').select('*').eq('id', ..).single() can give: the row,
\* an error with no data (also when no row matches), no data and no error
\* (a resolver that reports a missing profile as null), or an exception.
ProfileOutcomes == {"row", "error", "null", "throw"}

\* profile.is_admin || false
IsAdminOf(profile) == profile.is_admin = TRUE

Anonymous == [user |-> <<>>, profile |-> <<>>, isAdmin |-> FALSE]

\* The outcome of one gate run: the context it leaves on req, whether it
\* called next(), and the response it sent (NoResponse when it sent none).
GateResult(ctx, calledNext, response) ==
    [ctx |-> ctx, next |-> calledNext, res |-> response]

\* verifyAuth without its if (profileError) return: a failed profile lookup
\* lets the request through.
VerifyAuthResult_ProfileErrorIgnored(h, g, p) ==
    IF ~BearerScheme(h)
    THEN GateResult(Anonymous, FALSE, ErrorResponse(401, "No authorization token provided"))
    ELSE IF g = "throw"
    THEN GateResult(Anonymous, FALSE, ErrorResponse(500, "Authentication error"))
    ELSE IF g # "user"
    THEN GateResult(Anonymous, FALSE, ErrorResponse(401, "Invalid or expired token"))
    ELSE IF p = "throw"
    THEN GateResult(Anonymous, FALSE, ErrorResponse(500, "Authentication error"))
    ELSE LET u == TokenUser(TokenOf(h))[1]
         IN  IF p = "error"
             THEN GateResult([user |-> <<u>>, profile |-> <<>>, isAdmin |-> FALSE],
                             TRUE, NoResponse)
             ELSE IF p = "null"
             THEN GateResult([user |-> <<u>>, profile |-> <<>>, isAdmin |-> FALSE],
                             FALSE, ErrorResponse(500, "Authentication error"))
             ELSE GateResult([user |-> <<u>>, profile |-> <<Profiles[u]>>,
                              isAdmin |-> IsAdminOf(Profiles[u])], TRUE, NoResponse)

\* verifyAuth for header h, getUser outcome g and profile lookup outcome p.
\* With a null profile and no error, req.user and req.profile are assigned
\* and reading profile.is_admin raises: the catch block answers 500.
VerifyAuthResult(h, g, p) ==
    IF ~BearerScheme(h)
    THEN GateResult(Anonymous, FALSE, ErrorResponse(401, "No authorization token provided"))
    ELSE IF g = "throw"
    THEN GateResult(Anonymous, FALSE, ErrorResponse(500, "Authentication error"))
    ELSE IF g # "user"
    THEN GateResult(Anonymous, FALSE, ErrorResponse(401, "Invalid or expired token"))
    ELSE IF p = "throw"
    THEN GateResult(Anonymous, FALSE, ErrorResponse(500, "Authentication error"))
    ELSE IF p = "error"
    THEN GateResult(Anonymous, FALSE, ErrorResponse(500, "Error fetching user profile"))
    ELSE LET u == TokenUser(TokenOf(h))[1]
         IN  IF p = "null"
             THEN GateResult([user |-> <<u>>, profile |-> <<>>, isAdmin |-> FALSE],
                             FALSE, ErrorResponse(500, "Authentication error"))
             ELSE GateResult([user |-> <<u>>, profile |-> <<Profiles[u]>>,
                              isAdmin |-> IsAdminOf(Profiles[u])], TRUE, NoResponse)

\* optionalAuth whose catch block answers 500 instead of calling next().
OptionalAuthResult_CatchResponds(h, g, p) ==
    IF ~BearerScheme(h)
    THEN GateResult(Anonymous, TRUE, NoResponse)
    ELSE IF g = "throw" \/ (g = "user" /\ p = "throw")
    THEN GateResult(Anonymous, FALSE, ErrorResponse(500, "Authentication error"))
    ELSE IF g # "user"
    THEN GateResult(Anonymous, TRUE, NoResponse)
    ELSE LET u == TokenUser(TokenOf(h))[1]
         IN  IF p \in {"error", "null"}
             THEN GateResult([user |-> <<u>>, profile |-> <<>>, isAdmin |-> FALSE],
                             TRUE, NoResponse)
             ELSE GateResult([user |-> <<u>>, profile |-> <<Profiles[u]>>,
                              isAdmin |-> IsAdminOf(Profiles[u])], TRUE, NoResponse)

\* optionalAuth whose catch block answers 500 and calls next() as well.
OptionalAuthResult_CatchRespondsAndPasses(h, g, p) ==
    IF ~BearerScheme(h)
    THEN GateResult(Anonymous, TRUE, NoResponse)
    ELSE IF g = "throw" \/ (g = "user" /\ p = "throw")
    THEN GateResult(Anonymous, TRUE, ErrorResponse(500, "Authentication error"))
    ELSE IF g # "user"
    THEN GateResult(Anonymous, TRUE, NoResponse)
    ELSE LET u == TokenUser(TokenOf(h))[1]
         IN  IF p \in {"error", "null"}
             THEN GateResult([user |-> <<u>>, profile |-> <<>>, isAdmin |-> FALSE],
                             TRUE, NoResponse)
             ELSE GateResult([user |-> <<u>>, profile |-> <<Profiles[u]>>,
                              isAdmin |-> IsAdminOf(Profiles[u])], TRUE, NoResponse)

\* optionalAuth for header h, getUser outcome g and profile lookup outcome p.
OptionalAuthResult(h, g, p) ==
    IF ~BearerScheme(h)
    THEN GateResult(Anonymous, TRUE, NoResponse)
    ELSE IF g # "user"
    THEN GateResult(Anonymous, TRUE, NoResponse)
    ELSE IF p = "throw"
    THEN GateResult(Anonymous, TRUE, NoResponse)
    ELSE LET u == TokenUser(TokenOf(h))[1]
         IN  IF p \in {"error", "null"}
             THEN GateResult([user |-> <<u>>, profile |-> <<>>, isAdmin |-> FALSE],
                             TRUE, NoResponse)
             ELSE GateResult([user |-> <<u>>, profile |-> <<Profiles[u]>>,
                              isAdmin |-> IsAdminOf(Profiles[u])], TRUE, NoResponse)

\* The request after a gate run with outcome gr; stage is where next() leads.
AfterGate(rq, gr, g, p) ==
    LET withCtx == [rq EXCEPT !.user = gr.ctx.user, !.profile = gr.ctx.profile,
                              !.isAdmin = gr.ctx.isAdmin, !.idp = g, !.lookup = p]
        sent    == IF gr.res.kind = "none" THEN withCtx
                   ELSE [withCtx EXCEPT !.res = gr.res, !.sent = @ + 1]
    IN  IF gr.next
        THEN [sent EXCEPT !.nextCalls = @ + 1,
                          !.pc = IF rq.admin THEN "admin" ELSE "handler"]
        ELSE [sent EXCEPT !.pc = "done"]

\* The external calls a gate run makes for header h: none without a Bearer
\* header, the profile lookup only after getUser gave a user.
GateCalls(h) ==
    IF ~BearerScheme(h) THEN {<<"none", "none">>}
    ELSE {<<g, "none">> : g \in GetUserOutcomes(TokenOf(h)) \ {"user"}}
         \cup {<<g, p>> : g \in GetUserOutcomes(TokenOf(h)) \cap {"user"}, p \in ProfileOutcomes}

VerifyAuth(r) ==
    /\ req[r].pc = "gate"
    /\ req[r].gate = "verifyAuth"
    /\ \E c \in GateCalls(req[r].header) :
         req' = [req EXCEPT ![r] =
                    AfterGate(@, VerifyAuthResult(@.header, c[1], c[2]), c[1], c[2])]
    /\ UNCHANGED <<projects, nextId, clock, adminActions>>

OptionalAuth(r) ==
    /\ req[r].pc = "gate"
    /\ req[r].gate = "optionalAuth"
    /\ \E c \in GateCalls(req[r].header) :
         req' = [req EXCEPT ![r] =
                    AfterGate(@, OptionalAuthResult(@.header, c[1], c[2]), c[1], c[2])]
    /\ UNCHANGED <<projects, nextId, clock, adminActions>>

----------------------------------------------------------------------------
(* Admin gate: src/middleware/admin.js 6-22 *)

\* requireAdmin without its if (!req.isAdmin) return.
RequireAdminResult_NoRoleCheck(user, isAdmin) ==
    IF user = <<>>
    THEN ErrorResponse(401, "Authentication required")
    ELSE NoResponse

\* requireAdmin on the context (user, isAdmin): the response it sends, or
\* NoResponse when it calls next().
RequireAdminResult(user, isAdmin) ==
    IF user = <<>>
    THEN ErrorResponse(401, "Authentication required")
    ELSE IF ~isAdmin
    THEN ErrorResponse(403, "Admin access required. This action is restricted to administrators.")
    ELSE NoResponse

RequireAdmin(r) ==
    /\ req[r].pc = "admin"
    /\ LET response == RequireAdminResult(req[r].user, req[r].isAdmin)
       IN  req' = [req EXCEPT ![r] =
                      IF response.kind = "none"
                      THEN [@ EXCEPT !.pc = "handler", !.adminNext = @ + 1]
                      ELSE Send(@, response)]
    /\ UNCHANGED <<projects, nextId, clock, adminActions>>

----------------------------------------------------------------------------
(* The projects table behind supabase.from('projects') *)

Rows == {projects[i] : i \in DOMAIN projects}

\* The rows every .eq(column, value) of a query keeps.
Matching(filter) ==
    {row \in Rows : \A c \in DOMAIN filter : row[c] = filter[c]}

\* .single(): the one row, or an error with no data when the query gave
\* zero rows or several.
Single(rows) ==
    IF Cardinality(rows) = 1
    THEN [data |-> <<CHOOSE row \in rows : TRUE>>, error |-> FALSE]
    ELSE [data |-> <<>>, error |-> TRUE]

\* What a store call can do: answer, answer with an error (no data, no
\* effect), or raise.
StoreOutcomes == {"ok", "error", "throw"}

\* .order('created_at', { ascending: false })
RECURSIVE OrderByCreatedDesc(_)
OrderByCreatedDesc(rows) ==
    IF rows = {} THEN <<>>
    ELSE LET newest == CHOOSE x \in rows : \A y \in rows : y.created_at <= x.created_at
         IN  <<newest>> \o OrderByCreatedDesc(rows \ {newest})

\* The shape of a query, as the store sees it.
Query(op, filter) == [op |-> op, filters |-> DOMAIN filter]

----------------------------------------------------------------------------
(* Project routes: src/server.js 285-470, src/routes/projects.js 13-216 *)

\* The list query without its owner filter.
ListFilter_NoOwner(uid) == EmptyBody

\* .eq('user_id', req.user.id)
ListFilter(uid) == [user_id |-> uid]

\* The query of GET by id without its owner filter.
GetFilter_IdOnly(id, uid) == [id |-> id]

\* .eq('id', req.params.id).eq('user_id', req.user.id)
GetFilter(id, uid) == [id |-> id, user_id |-> uid]

\* The ownership check without its owner filter.
OwnershipFilter_IdOnly(id, uid) == [id |-> id]

\* the ownership check of PATCH and DELETE
OwnershipFilter(id, uid) == [id |-> id, user_id |-> uid]

\* .update(updates).eq('id', req.params.id)
UpdateFilter(id, uid) == [id |-> id]

\* .delete().eq('id', req.params.id)
DeleteFilter(id, uid) == [id |-> id]

\* GET /api/projects
ListResult(rows, o) ==
    IF o # "ok"
    THEN ErrorResponse(500, "Failed to fetch projects")
    ELSE OkResponse("projects", OrderByCreatedDesc(rows))

\* GET /api/projects/:id
GetResult(rows, o) ==
    IF o # "ok" \/ Single(rows).error
    THEN ErrorResponse(500, "Failed to fetch project")
    ELSE IF Single(rows).data = <<>>
    THEN ErrorResponse(404, "Project not found")
    ELSE OkResponse("project", Single(rows).data)

\* !name
NameMissing(body) == IF "name" \in DOMAIN body THEN body.name = "" ELSE TRUE

\* The object handed to .insert(): undefined members are not serialised, the
\* id and created_at are the store's.
InsertRow(uid, body, id, now) ==
    LET given == DOMAIN body \cap {"description", "logo_url", "due_date"}
        fixed == [ id         |-> id,
                   created_at |-> now,
                   user_id    |-> uid,
                   name       |-> body.name,
                   team_size  |-> IF "team_size" \in DOMAIN body /\ body.team_size # 0
                                  THEN body.team_size ELSE 1,
                   tags       |-> IF "tags" \in DOMAIN body THEN body.tags ELSE <<>>,
                   priority   |-> IF "priority" \in DOMAIN body /\ body.priority # ""
                                  THEN body.priority ELSE "medium" ]
    IN  [c \in DOMAIN fixed \cup given |-> IF c \in given THEN body[c] ELSE fixed[c]]

\* if (x !== undefined) updates.x = x, for the nine columns of PATCH
BuildUpdates(body) ==
    [c \in DOMAIN body \cap PatchFields |-> body[c]]

\* An update that replaces the row: the columns PATCH may set and the body
\* leaves out are lost.
ApplyUpdates_Replace(row, updates) ==
    [c \in (DOMAIN row \ PatchFields) \cup DOMAIN updates |->
        IF c \in DOMAIN updates THEN updates[c] ELSE row[c]]

\* A row after .update(updates)
ApplyUpdates(row, updates) ==
    [c \in DOMAIN row \cup DOMAIN updates |->
        IF c \in DOMAIN updates THEN updates[c] ELSE row[c]]

\* The handler of slot r starts: pc is "handler" and the route is the given one.
AtHandler(r, route) == req[r].pc = "handler" /\ req[r].route = route

Uid(r) == req[r].user[1]

ListProjects(r) ==
    /\ AtHandler(r, "list")
    /\ \E o \in StoreOutcomes :
         req' = [req EXCEPT ![r] =
                    Send([@ EXCEPT !.handled = TRUE, !.out1 = o,
                                   !.q1 = Query("select", ListFilter(Uid(r)))],
                         ListResult(Matching(ListFilter(Uid(r))), o))]
    /\ UNCHANGED <<projects, nextId, clock, adminActions>>

GetProject(r) ==
    /\ AtHandler(r, "get")
    /\ \E o \in StoreOutcomes :
         req' = [req EXCEPT ![r] =
                    Send([@ EXCEPT !.handled = TRUE, !.out1 = o,
                                   !.q1 = Query("select", GetFilter(req[r].id, Uid(r)))],
                         GetResult(Matching(GetFilter(req[r].id, Uid(r))), o))]
    /\ UNCHANGED <<projects, nextId, clock, adminActions>>

\* POST /api/projects without a name: 400 before any store call.
CreateRejected(r) ==
    /\ AtHandler(r, "create")
    /\ NameMissing(req[r].body)
    /\ req' = [req EXCEPT ![r] =
                  Send([@ EXCEPT !.handled = TRUE],
                       ErrorResponse(400, "Project name is required"))]
    /\ UNCHANGED <<projects, nextId, clock, adminActions>>

\* POST /api/projects: .insert({...}).select().single()
CreateProject(r) ==
    /\ AtHandler(r, "create")
    /\ ~NameMissing(req[r].body)
    /\ \/ /\ nextId \in ProjectIds
          /\ LET row == InsertRow(Uid(r), req[r].body, nextId, clock)
             IN  /\ projects' = (nextId :> row) @@ projects
                /\ nextId' = nextId + 1
                /\ clock' = clock + 1
                /\ req' = [req EXCEPT ![r] =
                              Send([@ EXCEPT !.handled = TRUE, !.out1 = "ok",
                                             !.q1 = Query("insert", EmptyBody)],
                                   OkResponse("project", <<row>>))]
       \/ /\ \E o \in StoreOutcomes \ {"ok"} :
               req' = [req EXCEPT ![r] =
                          Send([@ EXCEPT !.handled = TRUE, !.out1 = o,
                                         !.q1 = Query("insert", EmptyBody)],
                               ErrorResponse(500, "Failed to create project"))]
          /\ UNCHANGED <<projects, nextId, clock>>
    /\ UNCHANGED adminActions

\* The ownership check that opens PATCH and DELETE: only data is read from
\* the answer, so an error leaves existing empty like a miss does.
Existing(id, uid, o) ==
    IF o = "ok" THEN Single(Matching(OwnershipFilter(id, uid))).data ELSE <<>>

\* The ownership check without its if (!existing) return.
CheckResult_NoMissCheck(existing, o, failure) ==
    IF o = "throw" THEN ErrorResponse(500, failure) ELSE NoResponse

\* The response that ends PATCH or DELETE at the ownership check, or
\* NoResponse when the handler goes on to the mutation.
CheckResult(existing, o, failure) ==
    IF o = "throw" THEN ErrorResponse(500, failure)
    ELSE IF existing = <<>>
    THEN ErrorResponse(404, "Project not found or access denied")
    ELSE NoResponse

OwnershipCheck(r, failure) ==
    /\ \E o \in StoreOutcomes :
         LET response == CheckResult(Existing(req[r].id, Uid(r), o), o, failure)
             started  == [req[r] EXCEPT !.handled = TRUE, !.out1 = o,
                              !.q1 = Query("select", OwnershipFilter(req[r].id, Uid(r)))]
         IN  req' = [req EXCEPT ![r] =
                        IF response.kind = "none"
                        THEN [started EXCEPT !.pc = "mutate"]
                        ELSE Send(started, response)]
    /\ UNCHANGED <<projects, nextId, clock, adminActions>>

PatchCheck(r) ==
    /\ AtHandler(r, "patch")
    /\ OwnershipCheck(r, "Failed to update project")

DeleteCheck(r) ==
    /\ AtHandler(r, "delete")
    /\ OwnershipCheck(r, "Failed to delete project")

\* The table after .update(updates) on the rows the filter keeps.
Updated(filter, updates) ==
    [i \in DOMAIN projects |->
        IF projects[i] \in Matching(filter)
        THEN ApplyUpdates(projects[i], updates) ELSE projects[i]]

\* .update(updates).eq(..).select().single(): the response for the rows
\* the update returned.
UpdateResult(returned) ==
    IF Single(returned).error
    THEN ErrorResponse(500, "Failed to update project")
    ELSE OkResponse("project", Single(returned).data)

PatchUpdate(r) ==
    /\ req[r].pc = "mutate"
    /\ req[r].route = "patch"
    /\ LET filter  == UpdateFilter(req[r].id, Uid(r))
           issued  == [req[r] EXCEPT !.q2 = Query("update", filter)]
           updates == BuildUpdates(req[r].body)
           table   == Updated(filter, updates)
           hit     == {i \in DOMAIN projects : projects[i] \in Matching(filter)}
       IN  \/ /\ updates # EmptyBody
              /\ projects' = table
              /\ req' = [req EXCEPT ![r] =
                            Send([issued EXCEPT !.out2 = "ok"],
                                 UpdateResult({table[i] : i \in hit}))]
           \* An update that sets no column changes nothing; the store
           \* either returns the matched rows or returns none.
           \/ /\ updates = EmptyBody
              /\ projects' = projects
              /\ \E returned \in {{projects[i] : i \in hit}, {}} :
                    req' = [req EXCEPT ![r] =
                               Send([issued EXCEPT !.out2 = "ok"], UpdateResult(returned))]
           \/ /\ projects' = projects
              /\ \E o \in StoreOutcomes \ {"ok"} :
                    req' = [req EXCEPT ![r] =
                               Send([issued EXCEPT !.out2 = o],
                                    ErrorResponse(500, "Failed to update project"))]
    /\ UNCHANGED <<nextId, clock, adminActions>>

\* .delete().eq(..): no row is asked back, so deleting nothing is no error.
DeleteMutate(r) ==
    /\ req[r].pc = "mutate"
    /\ req[r].route = "delete"
    /\ LET filter == DeleteFilter(req[r].id, Uid(r))
           issued == [req[r] EXCEPT !.q2 = Query("delete", filter)]
           gone   == Matching(filter)
       IN  \/ /\ projects' = [i \in {j \in DOMAIN projects : projects[j] \notin gone}
                                 |-> projects[i]]
              /\ req' = [req EXCEPT ![r] =
                            Send([issued EXCEPT !.out2 = "ok"],
                                 OkResponse("message", <<>>))]
           \/ /\ projects' = projects
              /\ \E o \in StoreOutcomes \ {"ok"} :
                    req' = [req EXCEPT ![r] =
                               Send([issued EXCEPT !.out2 = o],
                                    ErrorResponse(500, "Failed to delete project"))]
    /\ UNCHANGED <<nextId, clock, adminActions>>

----------------------------------------------------------------------------
(* Audit logger: src/middleware/admin.js 27-40 *)

\* details.ip || null
OrNull(f, k) == IF k \in DOMAIN f THEN (IF f[k] # "" THEN f[k] ELSE "null") ELSE "null"

\* What the insert into admin_actions can do.
AuditOutcomes == {"ok", "error", "throw"}

\* logAdminAction that issues its insert twice.
LogAdminAction_InsertsTwice(table, adminId, action, details, o) ==
    IF details = <<>>
    THEN [table |-> table, attempts |-> 0, rejected |-> FALSE]
    ELSE LET record == [ admin_id    |-> adminId,
                         action_type |-> action,
                         details     |-> details[1],
                         ip_address  |-> OrNull(details[1], "ip") ]
         IN  [ table    |-> IF o = "ok" THEN Append(Append(table, record), record) ELSE table,
               attempts |-> 2,
               rejected |-> FALSE ]

\* logAdminAction without its try/catch: an exception rejects the promise.
LogAdminAction_NoCatch(table, adminId, action, details, o) ==
    IF details = <<>>
    THEN [table |-> table, attempts |-> 0, rejected |-> TRUE]
    ELSE LET record == [ admin_id    |-> adminId,
                         action_type |-> action,
                         details     |-> details[1],
                         ip_address  |-> OrNull(details[1], "ip") ]
         IN  [ table    |-> IF o = "ok" THEN Append(table, record) ELSE table,
               attempts |-> 1,
               rejected |-> (o = "throw") ]

\* logAdminAction(supabase, adminId, action, details) with insert outcome o.
\* details is <<>> for null and <<d>> for an object d; reading details.ip of
\* null raises before the insert is issued.  Every exception is caught.
LogAdminAction(table, adminId, action, details, o) ==
    IF details = <<>>
    THEN [table |-> table, attempts |-> 0, rejected |-> FALSE]
    ELSE LET record == [ admin_id    |-> adminId,
                         action_type |-> action,
                         details     |-> details[1],
                         ip_address  |-> OrNull(details[1], "ip") ]
         IN  [ table    |-> IF o = "ok" THEN Append(table, record) ELSE table,
               attempts |-> 1,
               rejected |-> FALSE ]

\* The details a caller hands to logAdminAction: null, an object with the
\* caller's address, an object without.
AuditDetails == {<<>>, <<[ip |-> "10.0.0.1"]>>, <<EmptyBody>>}

\* An admin-only action: the route does its work, awaits logAdminAction once
\* and answers; a rejected promise would reach the route's error handling.
\* out1 keeps what the insert gave, out2 whether the details were an object.
AdminAction(r) ==
    /\ AtHandler(r, "adminAction")
    /\ \E o \in AuditOutcomes, details \in AuditDetails :
         LET logged == LogAdminAction(adminActions, Uid(r), "admin_action", details, o)
         IN  /\ adminActions' = logged.table
             /\ req' = [req EXCEPT ![r] =
                           Send([@ EXCEPT !.handled = TRUE,
                                          !.auditAttempts = logged.attempts,
                                          !.out1 = o,
                                          !.out2 = IF details = <<>> THEN "null" ELSE "object"],
                                IF logged.rejected
                                THEN ErrorResponse(500, "Admin action failed")
                                ELSE OkResponse("message", <<>>))]
    /\ UNCHANGED <<projects, nextId, clock>>

----------------------------------------------------------------------------
(* AI routes: src/server.js 473-577 *)

SystemPrompt == "You are Nexus AI, an intelligent project management assistant"

\* conversationHistory.slice(-5)
ContextWindow == 5

\* x is present and truthy (a non-empty string)
Truthy(f, k) == IF k \in DOMAIN f THEN f[k] # "" ELSE FALSE

\* x || fallback
OrElse(f, k, fallback) == IF Truthy(f, k) THEN f[k] ELSE fallback

\* ${x} in a template literal
Interpolate(f, k) == IF k \in DOMAIN f THEN f[k] ELSE "undefined"

\* seq.slice(0, n): the oldest turns instead of the newest.
SliceLast_First(seq, n) ==
    IF Len(seq) <= n THEN seq ELSE SubSeq(seq, 1, n)

\* seq.slice(-n)
SliceLast(seq, n) ==
    IF Len(seq) <= n THEN seq ELSE SubSeq(seq, Len(seq) - n + 1, Len(seq))

\* msg => `${msg.role}: ${msg.content}`
RenderTurn(msg) == msg.role \o ": " \o msg.content

\* lines.join(sep)
RECURSIVE Join(_, _)
Join(lines, sep) ==
    IF lines = <<>> THEN ""
    ELSE IF Len(lines) = 1 THEN lines[1]
    ELSE lines[1] \o sep \o Join(Tail(lines), sep)

\* conversationHistory?.slice(-5).map(..).join('\n') || ''
ChatContext(body) ==
    IF "conversationHistory" \notin DOMAIN body THEN ""
    ELSE LET window == SliceLast(body.conversationHistory, ContextWindow)
         IN  Join([k \in 1..Len(window) |-> RenderTurn(window[k])], "\n")

\* project ? `\nCONTEXT: Project ${project.name} is ${project.progress || 0}% done.` : ''
ProjectContext(body) ==
    IF "project" \notin DOMAIN body THEN ""
    ELSE "\nCONTEXT: Project " \o Interpolate(body.project, "name") \o " is "
         \o OrElse(body.project, "progress", "0") \o "% done."

ChatPrompt(body) ==
    SystemPrompt \o "\n" \o ChatContext(body) \o ProjectContext(body)
        \o "\nUSER: " \o body.message \o "\nNEXUS AI:"

HintsPrompt(body) ==
    SystemPrompt \o "\nUSER'S PROJECT:\n- Name: " \o body.project.name
        \o "\n- Description: " \o OrElse(body.project, "description", "No description")
        \o "\n- Progress: " \o OrElse(body.project, "progress", "0")
        \o "%\n- Team: "
        \o OrElse(body.project, "team_size", OrElse(body.project, "team", "1"))
        \o " members\n\nTASK: Provide Smart Insights, Recommended Tech Stack, Next Steps, and Challenges."

RoadmapPrompt(body) ==
    SystemPrompt \o "\nCreate a 5-phase roadmap for: " \o body.project.name
        \o ". Description: " \o Interpolate(body.project, "description")

AiRoutes == {"hints", "chat", "roadmap"}

\* !message for chat, !project?.name for hints and roadmap
AiInvalid(route, body) ==
    IF route = "chat" THEN ~Truthy(body, "message")
    ELSE IF "project" \in DOMAIN body THEN ~Truthy(body.project, "name") ELSE TRUE

AiPrompt(route, body) ==
    CASE route = "chat"    -> ChatPrompt(body)
      [] route = "hints"   -> HintsPrompt(body)
      [] route = "roadmap" -> RoadmapPrompt(body)

\* What getModelResponse(prompt) can do: return the text, or raise.
LlmOutcomes == {"text", "throw"}

\* A turn of a history that is null instead of an object.
NullTurn == [null |-> TRUE]

\* The map over the window raises: a turn of the last five is null, and
\* reading msg.role of null is a TypeError.
ContextThrows(route, body) ==
    IF route = "chat" /\ "conversationHistory" \in DOMAIN body
    THEN LET window == SliceLast(body.conversationHistory, ContextWindow)
         IN  \E k \in 1..Len(window) : "null" \in DOMAIN window[k]
    ELSE FALSE

\* getModelResponse that calls the model again after a failure.
GetModelResponse_Retry(o) ==
    [calls |-> IF o = "throw" THEN 2 ELSE 1, outcome |-> o]

\* getModelResponse(prompt): one generateContent call, whose text is
\* returned and whose exception is passed on.
GetModelResponse(o) ==
    [calls |-> 1, outcome |-> o]

\* The response of an AI route once the model has answered with outcome o.
AiResult(route, o) ==
    IF o = "throw" THEN ErrorResponse(500, "provider error message")
    ELSE TextResponse(CASE route = "chat" -> "response"
                        [] route = "hints" -> "hints"
                        [] route = "roadmap" -> "roadmap", "generated text")

\* An AI route handler: validation, the prompt, one call of the model, the
\* response.  An exception while the prompt is built reaches the catch
\* block before the model is called.
AiHandler(r, route) ==
    /\ AtHandler(r, route)
    /\ IF AiInvalid(route, req[r].body)
       THEN req' = [req EXCEPT ![r] =
                       Send([@ EXCEPT !.handled = TRUE],
                            ErrorResponse(400, IF route = "chat" THEN "Message is required"
                                               ELSE "Project data is required"))]
       ELSE IF ContextThrows(route, req[r].body)
       THEN req' = [req EXCEPT ![r] =
                       Send([@ EXCEPT !.handled = TRUE],
                            ErrorResponse(500, "Cannot read properties of null"))]
       ELSE \E o \in LlmOutcomes :
               LET called == GetModelResponse(o)
               IN  req' = [req EXCEPT ![r] =
                              Send([@ EXCEPT !.handled = TRUE,
                                             !.prompt = AiPrompt(route, req[r].body),
                                             !.llmCalls = @ + called.calls,
                                             !.out1 = called.outcome],
                                   AiResult(route, called.outcome))]
    /\ UNCHANGED <<projects, nextId, clock, adminActions>>

Hints(r) == AiHandler(r, "hints")

Chat(r) == AiHandler(r, "chat")

Roadmap(r) == AiHandler(r, "roadmap")

----------------------------------------------------------------------------
(* Requests arriving and leaving *)

\* A request on a project route: verifyAuth is mounted, requireAdmin is not.
NewProjectRequest(r) ==
    /\ req[r].pc = "idle"
    /\ \E h \in ProjectHeaders, route \in ProjectRoutes :
         \E id \in (IF route \in {"get", "patch", "delete"} THEN ProjectIds ELSE {0}) :
         \E body \in (CASE route = "create" -> CreateBodies
                         [] route = "patch"  -> PatchBodies
                         [] OTHER            -> {EmptyBody}) :
            req' = [req EXCEPT ![r] =
                       [IdleRequest EXCEPT !.pc = "gate", !.route = route,
                                           !.gate = "verifyAuth", !.header = h,
                                           !.id = id, !.body = body]]
    /\ UNCHANGED <<projects, nextId, clock, adminActions>>

\* The response has gone out; the slot is free again.
Retire(r) ==
    /\ req[r].pc = "done"
    /\ req' = [req EXCEPT ![r] = IdleRequest]
    /\ UNCHANGED <<projects, nextId, clock, adminActions>>

----------------------------------------------------------------------------
(* The project routes under concurrent requests *)

Init ==
    /\ projects = [i \in {} |-> 0]
    /\ nextId = 1
    /\ clock = 1
    /\ adminActions = <<>>
    /\ req = [r \in Slots |-> IdleRequest]

Next ==
    \E r \in Slots :
        \/ NewProjectRequest(r)
        \/ VerifyAuth(r)
        \/ ListProjects(r)
        \/ GetProject(r)
        \/ CreateRejected(r)
        \/ CreateProject(r)
        \/ PatchCheck(r)
        \/ PatchUpdate(r)
        \/ DeleteCheck(r)
        \/ DeleteMutate(r)
        \/ Retire(r)

Spec == Init /\ [][Next]_vars

----------------------------------------------------------------------------
(* The gates: every header, every answer of the identity provider and of
   the profiles table, on a route behind each gate *)

AiBodies ==
    { EmptyBody,
      [message |-> ""],
      [message |-> "hi"],
      [message |-> "hi", project |-> [name |-> "Launch", progress |-> "40"],
       conversationHistory |-> << [role |-> "user", content |-> "m1"],
                                  [role |-> "assistant", content |-> "m2"] >>],
      [message |-> "hi",
       conversationHistory |-> << [role |-> "user", content |-> "m1"], NullTurn >>],
      [message |-> "hi",
       conversationHistory |-> << NullTurn,
                                  [role |-> "user", content |-> "m2"],
                                  [role |-> "assistant", content |-> "m3"],
                                  [role |-> "user", content |-> "m4"],
                                  [role |-> "assistant", content |-> "m5"],
                                  [role |-> "user", content |-> "m6"] >>],
      [project |-> [description |-> "no name"]],
      [project |-> [name |-> "Launch", description |-> "d1", team |-> "4"]] }

\* A request on a route behind a gate: the project list behind verifyAuth,
\* an AI route behind optionalAuth, or an admin-only action, where
\* requireAdmin follows the gate.
NewGateRequest(r) ==
    /\ req[r].pc = "idle"
    /\ \E h \in Headers, route \in {"list", "adminAction"} \cup AiRoutes :
         \E gate \in (CASE route = "list"        -> {"verifyAuth"}
                         [] route = "adminAction" -> {"verifyAuth", "optionalAuth"}
                         [] OTHER                 -> {"optionalAuth"}) :
         \E body \in (IF route \in AiRoutes THEN AiBodies ELSE {EmptyBody}) :
            /\ route = "adminAction" => Len(adminActions) < MaxAudit
            /\ req' = [req EXCEPT ![r] =
                          [IdleRequest EXCEPT !.pc = "gate", !.route = route,
                                              !.gate = gate, !.header = h,
                                              !.admin = (route = "adminAction"),
                                              !.body = body]]
    /\ UNCHANGED <<projects, nextId, clock, adminActions>>

NextGates ==
    \E r \in Slots :
        \/ NewGateRequest(r)
        \/ VerifyAuth(r)
        \/ OptionalAuth(r)
        \/ RequireAdmin(r)
        \/ AdminAction(r)
        \/ ListProjects(r)
        \/ Hints(r)
        \/ Chat(r)
        \/ Roadmap(r)
        \/ Retire(r)

SpecGates == Init /\ [][NextGates]_vars

----------------------------------------------------------------------------
(* Every route of the service that sits behind an auth gate: the project
   routes behind verifyAuth and the AI routes behind optionalAuth.  A
   request in flight keeps running: each awaited call returns or raises. *)

\* A request on an AI route: optionalAuth is mounted.
NewAiRequest(r) ==
    /\ req[r].pc = "idle"
    /\ \E h \in ProjectHeaders, route \in AiRoutes, body \in AiBodies :
         req' = [req EXCEPT ![r] =
                    [IdleRequest EXCEPT !.pc = "gate", !.route = route,
                                        !.gate = "optionalAuth", !.header = h,
                                        !.body = body]]
    /\ UNCHANGED <<projects, nextId, clock, adminActions>>

\* A step of a request in flight.
Progress ==
    \E r \in Slots :
        \/ VerifyAuth(r)
        \/ OptionalAuth(r)
        \/ ListProjects(r)
        \/ GetProject(r)
        \/ CreateRejected(r)
        \/ CreateProject(r)
        \/ PatchCheck(r)
        \/ PatchUpdate(r)
        \/ DeleteCheck(r)
        \/ DeleteMutate(r)
        \/ Hints(r)
        \/ Chat(r)
        \/ Roadmap(r)

NextAll ==
    \E r \in Slots :
        \/ NewProjectRequest(r)
        \/ NewAiRequest(r)
        \/ VerifyAuth(r)
        \/ OptionalAuth(r)
        \/ ListProjects(r)
        \/ GetProject(r)
        \/ CreateRejected(r)
        \/ CreateProject(r)
        \/ PatchCheck(r)
        \/ PatchUpdate(r)
        \/ DeleteCheck(r)
        \/ DeleteMutate(r)
        \/ Hints(r)
        \/ Chat(r)
        \/ Roadmap(r)
        \/ Retire(r)

SpecAll == Init /\ [][NextAll]_vars /\ WF_vars(Progress)

----------------------------------------------------------------------------
(* Two requests in flight on the project routes: the steps of the two
   handlers interleave at every await. *)

RaceSlots == {"r1", "r2"}

\* The headers of two authenticated callers.
RaceHeaders == {<<"Bearer", "tok_alice">>, <<"Bearer", "tok_bob">>}

RaceCreateBodies == {[name |-> "Launch"]}

RacePatchBodies ==
    { [name |-> "Renamed", status |-> "done", user_id |-> "bob", id |-> 9] }

\* A request of an authenticated user arrives and passes verifyAuth: the
\* token verifies and the profile is found, so the handler is next.
NewRaceRequest(r) ==
    /\ req[r].pc = "idle"
    /\ \E h \in RaceHeaders, route \in ProjectRoutes :
         \E id \in (IF route \in {"get", "patch", "delete"} THEN ProjectIds ELSE {0}) :
         \E body \in (CASE route = "create" -> RaceCreateBodies
                         [] route = "patch"  -> RacePatchBodies
                         [] OTHER            -> {EmptyBody}) :
            req' = [req EXCEPT ![r] =
                       AfterGate([IdleRequest EXCEPT !.pc = "gate", !.route = route,
                                                     !.gate = "verifyAuth", !.header = h,
                                                     !.id = id, !.body = body],
                                 VerifyAuthResult(h, "user", "row"), "user", "row")]
    /\ UNCHANGED <<projects, nextId, clock, adminActions>>

InitRace ==
    /\ projects = [i \in {} |-> 0]
    /\ nextId = 1
    /\ clock = 1
    /\ adminActions = <<>>
    /\ req = [r \in RaceSlots |-> IdleRequest]

NextRace ==
    \E r \in RaceSlots :
        \/ NewRaceRequest(r)
        \/ ListProjects(r)
        \/ GetProject(r)
        \/ CreateProject(r)
        \/ PatchCheck(r)
        \/ PatchUpdate(r)
        \/ DeleteCheck(r)
        \/ DeleteMutate(r)
        \/ Retire(r)

SpecRace == InitRace /\ [][NextRace]_vars

----------------------------------------------------------------------------
(* The chat prompt over conversation histories of every length *)

Roles == {"user", "assistant"}

\* The content of the i-th turn of a history: every turn differs.
TurnContent == <<"m1", "m2", "m3", "m4", "m5", "m6", "m7", "m8", "m9", "m10">>

Histories ==
    UNION { { [i \in 1..n |-> [role |-> f[i], content |-> TurnContent[i]]] :
                f \in [1..n -> Roles] } : n \in 0..MaxTurns }

ChatBodies ==
    {[message |-> "hi"]}
    \cup {[message |-> "hi", conversationHistory |-> h] : h \in Histories}
    \cup {[message |-> "hi", conversationHistory |-> h,
           project |-> [name |-> "Launch"]] : h \in Histories}

NewChatRequest(r) ==
    /\ req[r].pc = "idle"
    /\ \E body \in ChatBodies :
         req' = [req EXCEPT ![r] =
                    [IdleRequest EXCEPT !.pc = "gate", !.route = "chat",
                                        !.gate = "optionalAuth", !.body = body]]
    /\ UNCHANGED <<projects, nextId, clock, adminActions>>

NextChat ==
    \E r \in Slots :
        \/ NewChatRequest(r)
        \/ OptionalAuth(r)
        \/ Chat(r)
        \/ Retire(r)

SpecChat == Init /\ [][NextChat]_vars

----------------------------------------------------------------------------
(* Properties of the project routes *)

\* Slot r is about to run the handler of one of the given routes, as user B.
Handling(r, routes) == req[r].pc = "handler" /\ req[r].route \in routes

\* The project the request names exists and belongs to somebody else.
ForeignProject(r) ==
    /\ req[r].id \in DOMAIN projects
    /\ projects[req[r].id].user_id # Uid(r)

\* C1: for a project P stored with owner A, GET, PATCH and DELETE on P.id by
\* an authenticated user B # A end with 404 and without P's body, whenever
\* the store answers the handler's query.
C1_ForeignRequestEndsWith404 ==
    [][\A r \in DOMAIN req :
         (/\ Handling(r, {"get", "patch", "delete"})
          /\ ForeignProject(r)
          /\ req'[r].out1 = "ok")
         => (/\ req'[r].pc = "done"
             /\ req'[r].res.status = 404
             /\ req'[r].res.data = <<>>)]_vars

\* C1, the part the code keeps: PATCH and DELETE by B on A's project end
\* with 404 and leave the table alone; GET never returns the row.
C1_ForeignPatchDeleteEndWith404 ==
    [][\A r \in DOMAIN req :
         (Handling(r, {"get", "patch", "delete"}) /\ ForeignProject(r)
          /\ req'[r].out1 = "ok")
         => (/\ req'[r].pc = "done"
             /\ req'[r].res.data = <<>>
             /\ projects' = projects
             /\ req[r].route # "get" => req'[r].res.status = 404)]_vars

\* C1 failing case reached: bob's GET of alice's project has ended with 500.
C1_ForeignGetEnded500 ==
    \E r \in DOMAIN req :
        /\ req[r].pc = "done" /\ req[r].route = "get" /\ req[r].out1 = "ok"
        /\ req[r].user # <<>> /\ ForeignProject(r)
        /\ req[r].res.status = 500

\* Slot r takes a step of its PATCH handler (the ownership check or the update).
PatchStep(r) ==
    /\ req[r].route = "patch"
    /\ req[r].pc \in {"handler", "mutate"}
    /\ req'[r] # req[r]

\* The columns a PATCH body supplies.
Supplied(body) == DOMAIN body \cap PatchFields

\* C5: a PATCH that supplies a subset of the nine columns changes exactly the
\* supplied columns of the one project it names: the other columns of that
\* row, its id and owner, and every other row stay as they were; on success
\* the supplied columns hold the supplied values and the row is returned.
C5_SparsePatchFrame ==
    [][\A r \in DOMAIN req :
         PatchStep(r) =>
           /\ DOMAIN projects' = DOMAIN projects
           /\ \A i \in DOMAIN projects :
                /\ DOMAIN projects[i] \subseteq DOMAIN projects'[i]
                /\ \A c \in DOMAIN projects[i] :
                     (i # req[r].id \/ c \notin Supplied(req[r].body)
                        \/ c \in {"id", "user_id", "created_at"})
                     => projects'[i][c] = projects[i][c]
                /\ \A c \in DOMAIN projects'[i] \ DOMAIN projects[i] :
                     i = req[r].id /\ c \in Supplied(req[r].body)
           /\ req'[r].res.success =>
                /\ req[r].id \in DOMAIN projects'
                /\ \A c \in Supplied(req[r].body) :
                     projects'[req[r].id][c] = req[r].body[c]
                /\ req'[r].res.data = <<projects'[req[r].id]>>]_vars

\* C5 case reached: a PATCH of {progress: 50} succeeded on a project whose
\* name, team_size and priority are still the ones it was created with.
C5_SparsePatchDone ==
    \E r \in DOMAIN req :
        /\ req[r].pc = "done" /\ req[r].route = "patch" /\ req[r].res.success
        /\ req[r].body = [progress |-> 50]
        /\ req[r].id \in DOMAIN projects
        /\ projects[req[r].id].progress = 50
        /\ projects[req[r].id].name = "Launch"
        /\ projects[req[r].id].team_size = 1
        /\ projects[req[r].id].priority = "medium"
        /\ Cardinality(DOMAIN projects) = 2

\* C6: create without a name ends with 400 and inserts nothing; create with
\* a name inserts one row owned by the caller, with team_size 1, tags [] and
\* priority "medium" where the body gives none, and returns it; a GET of a
\* created id by another authenticated user ends with 404.
C6_CreateThenForeignGet ==
    [][\A r \in DOMAIN req :
         /\ (Handling(r, {"create"}) /\ NameMissing(req[r].body))
            => (/\ req'[r].res.status = 400
                /\ projects' = projects)
         /\ (Handling(r, {"create"}) /\ ~NameMissing(req[r].body)
             /\ req'[r].out1 = "ok")
            => (/\ req'[r].res.status = 200 /\ req'[r].res.success
                /\ Len(req'[r].res.data) = 1
                /\ LET row == req'[r].res.data[1]
                   IN  /\ row.id \notin DOMAIN projects
                       /\ DOMAIN projects' = DOMAIN projects \cup {row.id}
                       /\ projects'[row.id] = row
                       /\ \A i \in DOMAIN projects : projects'[i] = projects[i]
                       /\ row.user_id = Uid(r)
                       /\ row.name = req[r].body.name
                       /\ "team_size" \notin DOMAIN req[r].body => row.team_size = 1
                       /\ "tags" \notin DOMAIN req[r].body => row.tags = <<>>
                       /\ "priority" \notin DOMAIN req[r].body => row.priority = "medium")
         /\ (Handling(r, {"get"}) /\ ForeignProject(r) /\ req'[r].out1 = "ok")
            => req'[r].res.status = 404]_vars

\* C6 without its last clause: what create itself does.
C6_CreateAlone ==
    [][\A r \in DOMAIN req :
         /\ (Handling(r, {"create"}) /\ NameMissing(req[r].body))
            => (/\ req'[r].res.status = 400
                /\ projects' = projects)
         /\ (Handling(r, {"create"}) /\ ~NameMissing(req[r].body)
             /\ req'[r].out1 = "ok")
            => (/\ req'[r].res.status = 200 /\ req'[r].res.success
                /\ Len(req'[r].res.data) = 1
                /\ LET row == req'[r].res.data[1]
                   IN  /\ row.id \notin DOMAIN projects
                       /\ DOMAIN projects' = DOMAIN projects \cup {row.id}
                       /\ projects'[row.id] = row
                       /\ \A i \in DOMAIN projects : projects'[i] = projects[i]
                       /\ row.user_id = Uid(r)
                       /\ row.name = req[r].body.name
                       /\ "team_size" \notin DOMAIN req[r].body => row.team_size = 1
                       /\ "tags" \notin DOMAIN req[r].body => row.tags = <<>>
                       /\ "priority" \notin DOMAIN req[r].body => row.priority = "medium")]_vars

\* The id was generated by the store and its row is no longer there: only
\* DELETE removes rows, so the project was deleted.
Deleted(id) == id \in 1..(nextId - 1) /\ id \notin DOMAIN projects

\* C7: a successful delete removes the row, and every later delete of that
\* id by an authenticated user ends with 404 and leaves the table alone,
\* whenever the ownership query returns (with rows or with an error).
C7_RepeatedDeleteIs404 ==
    [][\A r \in DOMAIN req :
         /\ (req[r].route = "delete" /\ req[r].pc = "mutate" /\ req'[r].res.success)
            => req[r].id \notin DOMAIN projects'
         /\ (Handling(r, {"delete"}) /\ Deleted(req[r].id)
             /\ req'[r].out1 # "throw")
            => (/\ req'[r].pc = "done"
                /\ req'[r].res.status = 404
                /\ ~req'[r].res.success
                /\ projects' = projects)]_vars

\* C7 case reached: a delete of an already deleted id has ended.
C7_SecondDeleteDone ==
    \E r \in DOMAIN req :
        /\ req[r].pc = "done" /\ req[r].route = "delete"
        /\ req[r].handled /\ req[r].out1 = "ok"
        /\ Deleted(req[r].id)
        /\ req[r].res.status = 404

\* The projects of user u, as a set of rows.
OwnedBy(u) == {row \in Rows : row.user_id = u}

\* C8: whatever creates, updates and deletes came before, when the store
\* answers, list for user U returns success with exactly U's current rows,
\* each once, newest created first (the empty sequence when U owns none).
C8_ListIsOwnedNewestFirst ==
    [][\A r \in DOMAIN req :
         (Handling(r, {"list"}) /\ req'[r].out1 = "ok")
         => LET data == req'[r].res.data
            IN  /\ req'[r].res.status = 200 /\ req'[r].res.success
                /\ req'[r].res.kind = "projects"
                /\ {data[k] : k \in 1..Len(data)} = OwnedBy(Uid(r))
                /\ Len(data) = Cardinality(OwnedBy(Uid(r)))
                /\ \A j, k \in 1..Len(data) :
                     j < k => data[j].created_at > data[k].created_at]_vars

\* C8 case reached: a list has returned two projects of its caller, the
\* newer one first.
C8_ListedTwo ==
    \E r \in DOMAIN req :
        /\ req[r].pc = "done" /\ req[r].route = "list" /\ req[r].res.success
        /\ Len(req[r].res.data) = 2
        /\ req[r].res.data[1].created_at > req[r].res.data[2].created_at

\* C10: every query a handler issues on one project (a query filtered on the
\* id) is also filtered on the owner.
C10_SingleProjectQueriesFilterOwner ==
    \A r \in DOMAIN req :
        \A q \in {req[r].q1, req[r].q2} :
            "id" \in q.filters => "user_id" \in q.filters

----------------------------------------------------------------------------
(* Properties of the gates *)

\* Slot r runs the given gate in this step.
GateStep(r, gate) ==
    req[r].pc = "gate" /\ req[r].gate = gate /\ req'[r].pc # "gate"

\* The gate of request rq has ended the request: it answered, it did not
\* call next(), and neither requireAdmin nor the handler nor a store query
\* followed.
EndedAtGate(rq, code) ==
    /\ rq.pc = "done"
    /\ rq.res.status = code /\ ~rq.res.success /\ rq.res.error # ""
    /\ rq.sent = 1
    /\ rq.nextCalls = 0 /\ rq.adminNext = 0
    /\ ~rq.handled /\ rq.q1 = NoQuery /\ rq.q2 = NoQuery /\ rq.llmCalls = 0

\* Request rq is past its gate.
PastGate(rq) == rq.pc \notin {"idle", "gate"}

\* C2: behind verifyAuth, a request without a Bearer header ends with 401,
\* one whose token verification gives an error or no user ends with 401,
\* one whose profile lookup gives an error ends with 500; in each case
\* next() is not called and neither the handler nor the store is reached.
C2_VerifyAuthRejects ==
    \A r \in DOMAIN req :
        (req[r].gate = "verifyAuth" /\ PastGate(req[r])) =>
            /\ ~BearerScheme(req[r].header) => EndedAtGate(req[r], 401)
            /\ req[r].idp \in {"error", "nouser"} => EndedAtGate(req[r], 401)
            /\ req[r].lookup = "error" => EndedAtGate(req[r], 500)

\* C2 case reached: a verified token whose profile lookup gave an error has
\* been answered 500 by the gate.
C2_ProfileErrorAnswered500 ==
    \E r \in DOMAIN req :
        /\ req[r].gate = "verifyAuth" /\ req[r].pc = "done"
        /\ req[r].idp = "user" /\ req[r].lookup = "error"
        /\ req[r].res.status = 500 /\ req[r].nextCalls = 0

\* The request went down one of optionalAuth's failure paths: no Bearer
\* header, a token verification that gave no user, or a profile lookup
\* that gave an error or raised.
GateFailed(rq) ==
    \/ ~BearerScheme(rq.header)
    \/ rq.idp \in {"error", "nouser", "throw"}
    \/ rq.lookup \in {"error", "throw"}

\* optionalAuth called next() once and sent nothing.
PassedOn(r) ==
    /\ req'[r].nextCalls = 1
    /\ req'[r].sent = 0 /\ req'[r].res = NoResponse
    /\ req'[r].pc \in {"admin", "handler"}

C4_RequireAdminDecides ==
    [][\A r \in DOMAIN req :
         (req[r].pc = "admin" /\ req'[r] # req[r])
         => IF req[r].user = <<>>
            THEN /\ req'[r].pc = "done" /\ req'[r].res.status = 401
                 /\ req'[r].sent = 1 /\ req'[r].adminNext = 0
            ELSE IF ~req[r].isAdmin
            THEN /\ req'[r].pc = "done" /\ req'[r].res.status = 403
                 /\ req'[r].sent = 1 /\ req'[r].adminNext = 0
            ELSE /\ req'[r].pc = "handler" /\ req'[r].adminNext = 1
                 /\ req'[r].sent = 0 /\ req'[r].res = NoResponse]_vars

\* C4 case reached: a non-admin user has been answered 403 by requireAdmin.
C4_NonAdminAnswered403 ==
    \E r \in DOMAIN req :
        /\ req[r].admin /\ req[r].pc = "done"
        /\ req[r].user # <<>> /\ ~req[r].isAdmin
        /\ req[r].res.status = 403 /\ req[r].adminNext = 0 /\ ~req[r].handled

----------------------------------------------------------------------------
(* Properties of the chat prompt *)

Min(a, b) == IF a <= b THEN a ELSE b

\* Turns k..Len(h) of history h, each as "<role>: <content>", a newline
\* between two of them.
RECURSIVE RenderedFrom(_, _)
RenderedFrom(h, k) ==
    IF k > Len(h) THEN ""
    ELSE h[k].role \o ": " \o h[k].content
         \o (IF k < Len(h) THEN "\n" ELSE "") \o RenderedFrom(h, k + 1)

HistoryOf(body) ==
    IF "conversationHistory" \in DOMAIN body THEN body.conversationHistory ELSE <<>>

\* C9: for a history of n turns the prompt sent to the model holds, between
\* the system prompt and the project context, exactly the last min(n, 5)
\* turns, each as "<role>: <content>", in their original order, and so none
\* of the first n - 5.
C9_PromptRendersLastFiveTurns ==
    \A r \in DOMAIN req :
        (req[r].route = "chat" /\ req[r].llmCalls > 0) =>
            LET h == HistoryOf(req[r].body)
                n == Len(h)
            IN  req[r].prompt =
                    SystemPrompt \o "\n" \o RenderedFrom(h, n - Min(n, 5) + 1)
                        \o ProjectContext(req[r].body)
                        \o "\nUSER: " \o req[r].body.message \o "\nNEXUS AI:"

\* C9 case reached: the prompt of a chat request with 8 turns of history
\* has been sent: turns 4..8 are in it.
C9_EightTurnsPrompted ==
    \E r \in DOMAIN req :
        /\ req[r].route = "chat" /\ req[r].llmCalls = 1
        /\ Len(HistoryOf(req[r].body)) = 8
        /\ "project" \notin DOMAIN req[r].body
        /\ \A k \in 1..8 : HistoryOf(req[r].body)[k].role = "user"
        /\ req[r].prompt =
              SystemPrompt \o "\nuser: m4\nuser: m5\nuser: m6\nuser: m7\nuser: m8"
                  \o "\nUSER: hi\nNEXUS AI:"

\* C11: behind verifyAuth, when the token verifies and the profile lookup
\* returns without error, the gate sets user, profile and isAdmin =
\* (profile.is_admin or false), calls next() once and sends nothing; with
\* no profile (null) the request goes on with profile = null, isAdmin = false.
C11_VerifyAuthPopulatesContext ==
    [][\A r \in DOMAIN req :
         (/\ GateStep(r, "verifyAuth")
          /\ req'[r].idp = "user" /\ req'[r].lookup \in {"row", "null"})
         => LET u == TokenUser(TokenOf(req[r].header))
            IN  /\ u # <<>>
                /\ req'[r].user = u
                /\ IF req'[r].lookup = "row"
                   THEN /\ req'[r].profile = <<Profiles[u[1]]>>
                        /\ req'[r].isAdmin = Profiles[u[1]].is_admin
                   ELSE /\ req'[r].profile = <<>>
                        /\ req'[r].isAdmin = FALSE
                /\ req'[r].nextCalls = 1
                /\ req'[r].sent = 0 /\ req'[r].res = NoResponse
                /\ req'[r].pc \in {"admin", "handler"}]_vars

\* C11, the part the code keeps: with a profile row the context is
\* populated and the request goes on.
C11_VerifyAuthPopulatesFromRow ==
    [][\A r \in DOMAIN req :
         (/\ GateStep(r, "verifyAuth")
          /\ req'[r].idp = "user" /\ req'[r].lookup = "row")
         => LET u == TokenUser(TokenOf(req[r].header))
            IN  /\ u # <<>>
                /\ req'[r].user = u
                /\ req'[r].profile = <<Profiles[u[1]]>>
                /\ req'[r].isAdmin = Profiles[u[1]].is_admin
                /\ req'[r].nextCalls = 1
                /\ req'[r].sent = 0 /\ req'[r].res = NoResponse
                /\ req'[r].pc \in {"admin", "handler"}]_vars

\* C11 failing case reached: a verified token whose profile lookup gave
\* null without an error has been answered 500 by verifyAuth.
C11_NullProfileAnswered500 ==
    \E r \in DOMAIN req :
        /\ req[r].gate = "verifyAuth" /\ req[r].pc = "done"
        /\ req[r].idp = "user" /\ req[r].lookup = "null"
        /\ req[r].res.status = 500 /\ req[r].nextCalls = 0 /\ ~req[r].handled

----------------------------------------------------------------------------
(* Properties of the admin-only action and the audit logger *)

\* Slot r runs the handler of the admin-only action in this step.
AdminStep(r) == AtHandler(r, "adminAction") /\ req'[r] # req[r]

\* The record logAdminAction inserts for admin u.
WrittenBy(record, u) == record.admin_id = u /\ record.action_type = "admin_action"

\* A non-admin user behind requireAdmin gets 403, the handler does not run
\* and no insert into admin_actions is issued.
NonAdminRefused(r) ==
    (req[r].pc = "admin" /\ req[r].user # <<>> /\ ~req[r].isAdmin /\ req'[r] # req[r])
    => (/\ req'[r].pc = "done" /\ req'[r].res.status = 403
        /\ ~req'[r].handled /\ req'[r].auditAttempts = 0
        /\ adminActions' = adminActions)

\* C12 as stated: an admin-only action requested by an admin is processed
\* (200) and writes exactly one audit record, with that admin's id; requested
\* by a non-admin user it gets 403 and writes no audit record.
C12_AdminActionWritesOneRecord ==
    [][\A r \in DOMAIN req :
         /\ AdminStep(r) =>
               (/\ req[r].isAdmin
                /\ req'[r].res.status = 200 /\ req'[r].res.success
                /\ Len(adminActions') = Len(adminActions) + 1
                /\ WrittenBy(adminActions'[Len(adminActions')], Uid(r))
                /\ SubSeq(adminActions', 1, Len(adminActions)) = adminActions)
         /\ NonAdminRefused(r)]_vars

\* C12 as amended: an admin-only action requested by an admin is processed
\* (200) and issues at most one insert into admin_actions; exactly one
\* audit record, with that admin's id, is written when the details are an
\* object and the insert succeeds, and none otherwise; requested by a
\* non-admin user it gets 403, issues no insert and writes no record.
C12_AdminActionWritesAtMostOneRecord ==
    [][\A r \in DOMAIN req :
         /\ AdminStep(r) =>
               (/\ req[r].isAdmin
                /\ req'[r].res.status = 200 /\ req'[r].res.success
                /\ req'[r].auditAttempts <= 1
                /\ IF req'[r].out1 = "ok" /\ req'[r].out2 = "object"
                   THEN /\ req'[r].auditAttempts = 1
                        /\ Len(adminActions') = Len(adminActions) + 1
                        /\ WrittenBy(adminActions'[Len(adminActions')], Uid(r))
                        /\ SubSeq(adminActions', 1, Len(adminActions)) = adminActions
                   ELSE adminActions' = adminActions)
         /\ NonAdminRefused(r)]_vars

\* C12 case reached: alice's admin-only action has been answered 200 with
\* its one audit record written, and a second one with its insert failed
\* has been answered 200 with none added.
C12_AdminActionAudited ==
    \E r \in DOMAIN req :
        /\ req[r].route = "adminAction" /\ req[r].pc = "done" /\ req[r].handled
        /\ req[r].isAdmin /\ req[r].res.status = 200
        /\ req[r].auditAttempts = 1 /\ req[r].out1 = "error"
        /\ Len(adminActions) = 1
        /\ WrittenBy(adminActions[1], Uid(r))

\* C13: logAdminAction issues at most one insert per call and its promise
\* never rejects, whether the insert raises, returns an error or the
\* details are null; the admin action that awaits it is answered 200 and
\* issues no second insert.
C13_LogAdminActionNeverRejects ==
    [][\A r \in DOMAIN req :
         /\ AdminStep(r) =>
               (/\ req'[r].pc = "done" /\ req'[r].sent = 1
                /\ req'[r].res.status = 200 /\ req'[r].res.success
                /\ req'[r].auditAttempts <= 1
                /\ Len(adminActions') <= Len(adminActions) + 1)
         /\ \A o \in AuditOutcomes, details \in AuditDetails, u \in Users :
               LET logged == LogAdminAction(adminActions, u, "admin_action", details, o)
               IN  /\ ~logged.rejected
                   /\ logged.attempts <= 1
                   /\ o # "ok" => logged.table = adminActions]_vars

\* C13 case reached: an admin action whose audit insert raised has been
\* answered 200, and so has one whose details were null.
C13_AuditFailureSwallowed ==
    \E r \in DOMAIN req :
        /\ req[r].route = "adminAction" /\ req[r].pc = "done" /\ req[r].handled
        /\ req[r].res.status = 200
        /\ \/ req[r].out1 = "throw" /\ req[r].out2 = "object" /\ req[r].auditAttempts = 1
           \/ req[r].out2 = "null" /\ req[r].auditAttempts = 0

----------------------------------------------------------------------------
(* Properties of the AI routes *)

\* Slot r runs the handler of an AI route in this step.
AiStep(r) == Handling(r, AiRoutes) /\ req'[r] # req[r]

\* The handler called the model once and answered with its text, or with
\* 500 and the provider's message when the call failed.
CalledOnce(r) ==
    /\ req'[r].llmCalls = 1
    /\ req'[r].pc = "done" /\ req'[r].sent = 1
    /\ IF req'[r].out1 = "throw"
       THEN /\ req'[r].res.status = 500 /\ ~req'[r].res.success
            /\ req'[r].res.error = "provider error message"
       ELSE /\ req'[r].res.status = 200 /\ req'[r].res.success
            /\ req'[r].res.text = "generated text"

\* The handler answered with the given status without calling the model.
NeverCalled(r, code) ==
    /\ req'[r].llmCalls = 0
    /\ req'[r].pc = "done" /\ req'[r].sent = 1
    /\ req'[r].res.status = code /\ ~req'[r].res.success

\* C14 as stated: an AI request that passes validation calls the model
\* exactly once, and ends with 500 and the provider's message when that
\* call fails; one that fails validation gets 400 and calls it zero times.
C14_ValidatedRequestCallsModelOnce ==
    [][\A r \in DOMAIN req :
         AiStep(r) =>
           IF AiInvalid(req[r].route, req[r].body)
           THEN NeverCalled(r, 400)
           ELSE CalledOnce(r)]_vars

\* C14 as amended: an AI request that passes validation and whose prompt is
\* built without an exception calls the model exactly once, and ends with
\* 500 and the provider's message when that call fails; a chat request whose
\* history holds a null turn among its last five ends with 500 and zero
\* calls; one that fails validation gets 400 and zero calls.
C14_PromptedRequestCallsModelOnce ==
    [][\A r \in DOMAIN req :
         AiStep(r) =>
           IF AiInvalid(req[r].route, req[r].body)
           THEN NeverCalled(r, 400)
           ELSE IF ContextThrows(req[r].route, req[r].body)
           THEN NeverCalled(r, 500)
           ELSE CalledOnce(r)]_vars

\* C14 case reached: a roadmap request that passed validation has called
\* the model once, the call failed and the request ended with 500.
C14_ProviderFailureAnswered500 ==
    \E r \in DOMAIN req :
        /\ req[r].route = "roadmap" /\ req[r].pc = "done"
        /\ ~AiInvalid(req[r].route, req[r].body)
        /\ req[r].llmCalls = 1 /\ req[r].out1 = "throw"
        /\ req[r].res.status = 500

----------------------------------------------------------------------------
(* Properties of a request's life *)

\* At most one response is sent; a request that has ended has sent one, a
\* request still in its chain has sent none.
AnsweredOnce(rq) ==
    /\ rq.sent <= 1
    /\ rq.pc = "done" => (rq.sent = 1 /\ rq.res # NoResponse)
    /\ rq.pc # "done" => (rq.sent = 0 /\ rq.res = NoResponse)

\* The response is a JSON body with success; a failure has success = false
\* and an error string, a success has neither.
WellFormed(res) ==
    \/ res = NoResponse
    \/ /\ res.status = 200 /\ res.success /\ res.error = ""
    \/ /\ res.status \in {400, 401, 403, 404, 500} /\ ~res.success /\ res.error # ""

\* A gate either answers and ends the request, or calls next() once and
\* sends nothing.
GateAnswersOrPasses(r) ==
    (req[r].pc = "gate" /\ req'[r].pc # "gate") =>
        \/ /\ req'[r].pc = "done" /\ req'[r].sent = 1 /\ req'[r].nextCalls = 0
        \/ /\ req'[r].pc = "handler" /\ req'[r].sent = 0 /\ req'[r].nextCalls = 1

\* C15: every request on a project route or an AI route ends with exactly
\* one JSON response whatever the identity provider, the store and the
\* model return or raise: never two responses, never a response together
\* with next(), every request in flight is answered in the end, and every
\* failure response has success = false and an error string.
C15_EveryRequestAnsweredOnce ==
    /\ [](\A r \in DOMAIN req :
            /\ AnsweredOnce(req[r])
            /\ WellFormed(req[r].res)
            /\ (req[r].pc = "done" /\ req[r].nextCalls = 0) => ~req[r].handled
            /\ req[r].nextCalls <= 1)
    /\ [][\A r \in DOMAIN req : GateAnswersOrPasses(r)]_vars
    /\ \A r \in Slots : (req[r].pc = "gate") ~> (req[r].pc = "done")

\* C15 case reached: a PATCH whose update raised in the store after a
\* passed ownership check has been answered once, with 500.
C15_StoreThrowAnsweredOnce ==
    \E r \in DOMAIN req :
        /\ req[r].route = "patch" /\ req[r].pc = "done"
        /\ req[r].out1 = "ok" /\ req[r].out2 = "throw"
        /\ req[r].sent = 1 /\ req[r].nextCalls = 1
        /\ req[r].res.status = 500 /\ req[r].res.error # ""

----------------------------------------------------------------------------
(* Properties of concurrent requests on the project routes *)

\* Slot r takes the mutation step of its PATCH or DELETE handler.
MutateStep(r) ==
    /\ req[r].pc = "mutate" /\ req[r].route \in {"patch", "delete"}
    /\ req'[r] # req[r]

\* The row that passed r's ownership check is no longer there: another
\* request's delete removed it in between.
RowGone(r) == Deleted(req[r].id)

\* C16: when another request's delete removes the row between a request's
\* ownership check and its mutation, that request (an update or a delete)
\* ends with 500 and never reports success.
C16_LateMutationEndsWith500 ==
    [][\A r \in DOMAIN req :
         (MutateStep(r) /\ RowGone(r))
         => (/\ req'[r].pc = "done"
             /\ req'[r].res.status = 500
             /\ ~req'[r].res.success)]_vars

\* C16, the part the code keeps: an update that comes after the row was
\* deleted ends with 500, and a late mutation changes no row.
C16_LateUpdateEndsWith500 ==
    [][\A r \in DOMAIN req :
         (MutateStep(r) /\ RowGone(r))
         => (/\ req'[r].pc = "done"
             /\ projects' = projects
             /\ req[r].route = "patch" =>
                   (req'[r].res.status = 500 /\ ~req'[r].res.success))]_vars

\* C16 failing case reached: a delete whose row another delete removed
\* after the ownership check has reported success.
C16_LateDeleteReportedSuccess ==
    \E r \in DOMAIN req :
        /\ req[r].route = "delete" /\ req[r].pc = "done"
        /\ req[r].out1 = "ok" /\ req[r].out2 = "ok"
        /\ req[r].res.success
        /\ \E q \in DOMAIN req \ {r} :
              /\ req[q].route = "delete" /\ req[q].pc = "done"
              /\ req[q].id = req[r].id /\ req[q].user = req[r].user
              /\ req[q].res.success

\* Slot r takes a step.
Acts(r) == req'[r] # req[r]

\* C17: under every interleaving of the requests of several authenticated
\* users, a step of a request of user B leaves every project of another
\* owner in place and unchanged, and no step changes the owner or the id of
\* a project.
C17_OnlyTheOwnerMutates ==
    [][/\ \A r \in DOMAIN req :
            Acts(r) =>
              \A i \in DOMAIN projects :
                 <<projects[i].user_id>> # req[r].user
                 => (i \in DOMAIN projects' /\ projects'[i] = projects[i])
       /\ \A i \in DOMAIN projects \cap DOMAIN projects' :
            /\ projects'[i].user_id = projects[i].user_id
            /\ projects'[i].id = projects[i].id
            /\ projects[i].id = i]_vars

\* C17 case reached: while alice's PATCH of her project is between its
\* ownership check and its update, bob's PATCH or DELETE of that project
\* has ended with 404, the project still hers.
C17_ForeignMutationRefusedMidUpdate ==
    \E r, q \in DOMAIN req :
        /\ req[r].user = <<"bob">> /\ req[r].route \in {"patch", "delete"}
        /\ req[r].pc = "done" /\ req[r].res.status = 404
        /\ req[r].id \in DOMAIN projects
        /\ projects[req[r].id].user_id = "alice"
        /\ req[q].user = <<"alice">> /\ req[q].route = "patch"
        /\ req[q].pc = "mutate" /\ req[q].id = req[r].id

\* An id the store never generates.
NoSuchId == MaxProjects + 1

\* What the handler of a single-project route answers when its first query
\* has outcome o, or NoResponse when it goes on to the mutation.
FirstAnswer(route, id, uid, o) ==
    CASE route = "get"    -> GetResult(Matching(GetFilter(id, uid)), o)
      [] route = "patch"  -> CheckResult(Existing(id, uid, o), o, "Failed to update project")
      [] route = "delete" -> CheckResult(Existing(id, uid, o), o, "Failed to delete project")

\* C18: for GET, PATCH and DELETE by user B, the response for the id of a
\* project of another owner is the response for an id no project has,
\* under the same answer of the store, and the table is left unchanged in
\* both cases.
C18_ForeignLooksLikeMissing ==
    [][\A r \in DOMAIN req :
         (/\ Handling(r, {"get", "patch", "delete"}) /\ Acts(r)
          /\ (ForeignProject(r) \/ req[r].id \notin DOMAIN projects))
         => (/\ req'[r].pc = "done" /\ req'[r].sent = 1
             /\ req'[r].res = FirstAnswer(req[r].route, NoSuchId, Uid(r), req'[r].out1)
             /\ req'[r].res # NoResponse
             /\ req'[r].res.data = <<>>
             /\ projects' = projects)]_vars

\* C18 case reached: bob's DELETE of alice's project has ended with 404
\* while the other id is one no project has.
C18_ForeignDeleteLooksMissing ==
    \E r \in DOMAIN req :
        /\ req[r].route = "delete" /\ req[r].pc = "done" /\ req[r].out1 = "ok"
        /\ req[r].user = <<"bob">>
        /\ req[r].id \in DOMAIN projects
        /\ projects[req[r].id].user_id = "alice"
        /\ req[r].res.status = 404
        /\ \E j \in ProjectIds : j \notin DOMAIN projects

====
